---- MODULE Spec2Model ----
(***************************************************************************)
(* Model of src/main.py of MaiBot: MainSystem.initialize,                  *)
(* MainSystem._init_components, MainSystem.schedule_tasks and main(),      *)
(* run by asyncio.run on one cooperative event loop.                       *)
(*                                                                         *)
(* Tasks of the event loop:                                                *)
(*   main            main()                        lines 144-150, 154      *)
(*   initialize      MainSystem.initialize         lines 39-56             *)
(*   boot            MainSystem._init_components   lines 58-122            *)
(*   sched           MainSystem.schedule_tasks     lines 124-133           *)
(*   one task per host-loop service                lines 127-133           *)
(*   autoSave        _auto_save_task               line 91                 *)
(* A task keeps the loop until it suspends at an await; bootState =        *)
(* "running" says that _init_components holds the loop, and no other task  *)
(* takes a step then.                                                      *)
(***************************************************************************)
EXTENDS Integers, Sequences, FiniteSets, TLC

\* Bounds of the model.
MaxCycles == 2        \* iterations of the while True loop of schedule_tasks
MaxListeners == 2     \* ON_START listeners registered in the process

\* Faulty variant of Steps: ON_START is emitted before the migration check.
StepsEmitBeforeMigrate ==
    << "task_online", "task_statistic", "task_telemetry", "lpmm", "plugins",
       "emoji", "mood", "chat", "auto_save", "handler_message", "handler_echo",
       "on_start", "migrate", "elapsed" >>

\* Faulty variant of Steps: the handlers are registered before the
\* chat-stream manager is initialized.
StepsHandlersBeforeChat ==
    << "task_online", "task_statistic", "task_telemetry", "lpmm", "plugins",
       "emoji", "mood", "handler_message", "handler_echo", "chat", "auto_save",
       "migrate", "on_start", "elapsed" >>

\* Faulty variant of Steps: the migration check runs between the two registrations.
StepsMigrateBeforeEcho ==
    << "task_online", "task_statistic", "task_telemetry", "lpmm", "plugins",
       "emoji", "mood", "chat", "auto_save", "handler_message", "migrate",
       "handler_echo", "on_start", "elapsed" >>

\* Faulty variant of Steps: the mood subsystem is started before the emoji
\* manager is initialized.
StepsMoodBeforeEmoji ==
    << "task_online", "task_statistic", "task_telemetry", "lpmm", "plugins",
       "mood", "emoji", "chat", "auto_save", "handler_message", "handler_echo",
       "migrate", "on_start", "elapsed" >>

\* The statements of _init_components, in program order (lines 63-119).
Steps ==
    << "task_online", "task_statistic", "task_telemetry", "lpmm", "plugins",
       "emoji", "mood", "chat", "auto_save", "handler_message", "handler_echo",
       "migrate", "on_start", "elapsed" >>

NSteps == Len(Steps)

StepNames == {Steps[i] : i \in 1..NSteps}

\* The statements that are awaited: the callee may suspend there.
AsyncSteps ==
    {"task_online", "task_statistic", "task_telemetry", "mood", "chat",
     "migrate", "on_start"}

\* The statements whose call may raise. The elapsed-time computation of lines
\* 117-122 has nothing that raises.
Fallible == StepNames \ {"elapsed"}

\* The statements that register a background task (lines 63, 66 and 69); the
\* task is named after its statement.
TaskNames == {"task_online", "task_statistic", "task_telemetry"}

\* The coroutines schedule_tasks gathers (lines 127-131).
Services == {"emoji_check", "app_run", "server_run"}

\* The handlers that lines 106-107 register on the inbound server.
Handlers == {"message", "message_id_echo"}

\* The listener lists the plugin system may hold for ON_START after the plugins
\* are loaded: listener i raises when invoked iff ls[i].
ListenerConfigs == UNION {[1..n -> BOOLEAN] : n \in 0..MaxListeners}

VARIABLES
    mainState,     \* main(): "running" | "raised"
    initState,     \* initialize(): "pending" | "awaiting" | "returned" | "raised" | "cancelled"
    schedState,    \* schedule_tasks(): "pending" | "awaiting" | "raised" | "cancelled"
    bootState,     \* _init_components(): "uncreated" | "pending" | "running" |
                   \*   "suspended" | "hung" | "done" | "raised" | "cancelled"
    pc,            \* index in Steps of the statement _init_components is at
    phase,         \* "pre": before the call of Steps[pc]; "in": inside it
    comp,          \* state of what each statement initializes
    calls,         \* number of times each statement has been called
    handlers,      \* handlers registered on the inbound server
    registry,      \* the task registry: "none" | "registered" | "failed" | "completed"
    svc,           \* state of each service task of the current cycle
    startCount,    \* number of invocations of each service's coroutine function
    live,          \* number of tasks of each service created and not finished
    autoSave,      \* the fire-and-forget auto-save task
    listeners,     \* ON_START listeners, in registration order
    emitSnap,      \* the listeners the emit in progress iterates over
    emitIdx,       \* next listener of emitSnap to invoke
    invoked,       \* listeners invoked so far, in invocation order
    listenerFailures,  \* listener failures caught and logged
    emitCount      \* number of emits of ON_START

vars ==
    << mainState, initState, schedState, bootState, pc, phase, comp, calls,
       handlers, registry, svc, startCount, live, autoSave, listeners, emitSnap,
       emitIdx, invoked,
       listenerFailures, emitCount >>

bootVars == << pc, phase, comp, calls >>
serverVars == << handlers, registry >>
hostVars == << svc, startCount, live >>
emitVars == << emitSnap, emitIdx, invoked, listenerFailures, emitCount >>

Init ==
    /\ mainState = "running"
    /\ initState = "pending"
    /\ schedState = "pending"
    /\ bootState = "uncreated"
    /\ pc = 1
    /\ phase = "pre"
    /\ comp = [k \in StepNames |-> "uninit"]
    /\ calls = [k \in StepNames |-> 0]
    /\ handlers = {}
    /\ registry = [t \in TaskNames |-> "none"]
    /\ svc = [s \in Services |-> "idle"]
    /\ startCount = [s \in Services |-> 0]
    /\ live = [s \in Services |-> 0]
    /\ autoSave = "none"
    /\ listeners = << >>
    /\ emitSnap = << >>
    /\ emitIdx = 1
    /\ invoked = << >>
    /\ listenerFailures = 0
    /\ emitCount = 0

\* Faulty variant of LoopFree: the callee that never completes blocks the
\* thread of the loop instead of suspending.
LoopFreeUnlessHung ==
    mainState = "running" /\ bootState \notin {"running", "hung"}

\* The loop is free for a task other than _init_components.
LoopFree == mainState = "running" /\ bootState # "running"

(***************************************************************************)
(* MainSystem.initialize                                                   *)
(***************************************************************************)

\* Lines 39-44: log, wrap _init_components in a task and await the gather.
InitializeEnter ==
    /\ LoopFree
    /\ initState = "pending"
    /\ initState' = "awaiting"
    /\ bootState' = "pending"
    /\ UNCHANGED << mainState, schedState, bootVars, serverVars, hostVars,
                    autoSave, listeners, emitVars >>

\* Faulty variant of InitializeReturn: initialize also waits for the host loop,
\* which never returns.
InitializeReturnAfterHostLoop ==
    /\ LoopFree
    /\ initState = "awaiting"
    /\ bootState = "done"
    /\ schedState = "returned"
    /\ initState' = "returned"
    /\ UNCHANGED << mainState, schedState, bootState, bootVars, serverVars,
                    hostVars, autoSave, listeners, emitVars >>

\* Lines 44-56: the gather returned, log the banner and return.
InitializeReturn ==
    /\ LoopFree
    /\ initState = "awaiting"
    /\ bootState = "done"
    /\ initState' = "returned"
    /\ UNCHANGED << mainState, schedState, bootState, bootVars, serverVars,
                    hostVars, autoSave, listeners, emitVars >>

\* Line 44: the gather re-raises the exception of _init_components.
InitializeRaise ==
    /\ LoopFree
    /\ initState = "awaiting"
    /\ bootState = "raised"
    /\ initState' = "raised"
    /\ UNCHANGED << mainState, schedState, bootState, bootVars, serverVars,
                    hostVars, autoSave, listeners, emitVars >>

(***************************************************************************)
(* MainSystem._init_components                                             *)
(***************************************************************************)

\* Line 60: the task of _init_components gets the loop for the first time. It
\* was queued by initialize after main() queued schedule_tasks, so the first
\* iteration of schedule_tasks has already run up to its gather.
BootStart ==
    /\ mainState = "running"
    /\ bootState = "pending"
    /\ schedState # "pending"
    /\ bootState' = "running"
    /\ UNCHANGED << mainState, initState, schedState, bootVars, serverVars,
                    hostVars, autoSave, listeners, emitVars >>

\* _init_components is at statement k and holds the loop.
AtCall(k) ==
    /\ mainState = "running"
    /\ bootState = "running"
    /\ pc <= NSteps
    /\ Steps[pc] = k
    /\ phase = "pre"

\* _init_components is inside the call of statement k, running or suspended.
InCall(k) ==
    /\ mainState = "running"
    /\ bootState \in {"running", "suspended"}
    /\ pc <= NSteps
    /\ Steps[pc] = k
    /\ phase = "in"

\* events_manager.handle_mai_events(ON_START) begins: it iterates over the
\* listeners registered at that moment, first registered first.
EmitBegin ==
    /\ emitSnap' = listeners
    /\ emitIdx' = 1
    /\ invoked' = << >>
    /\ emitCount' = emitCount + 1
    /\ UNCHANGED listenerFailures

\* handle_mai_events has attempted every listener and returns.
EmitReturned == emitIdx > Len(emitSnap)

\* Faulty variant of AwaitReturned: the emit is launched without being awaited.
AwaitNothing(k) == TRUE

\* Faulty variant of AwaitReturned: line 91 awaits the auto-save coroutine,
\* which runs for the life of the process, instead of creating a task for it.
AwaitAutoSave(k) == IF k = "on_start" THEN EmitReturned ELSE k # "auto_save"

\* handle_mai_events catches and logs the failure of a listener: the emit call
\* itself does not raise.
EmitRaises == FALSE

\* What the await (or the plain call) of statement k waits for before
\* _init_components goes on: line 115 awaits the whole emit.
AwaitReturned(k) == IF k = "on_start" THEN EmitReturned ELSE TRUE

\* The call of statement k begins. An awaited callee may suspend, which frees
\* the loop for the other tasks; a plain call keeps the loop.
Call(k) ==
    /\ AtCall(k)
    /\ phase' = "in"
    /\ comp' = [comp EXCEPT ![k] = "initializing"]
    /\ calls' = [calls EXCEPT ![k] = @ + 1]
    /\ \E susp \in (IF k \in AsyncSteps THEN BOOLEAN ELSE {FALSE}) :
          bootState' = IF susp THEN "suspended" ELSE "running"
    /\ IF k = "on_start" THEN EmitBegin ELSE UNCHANGED emitVars
    /\ UNCHANGED << mainState, initState, schedState, pc, serverVars, hostVars,
                    autoSave, listeners >>

\* The effect of statement k on the collaborators once its call has returned:
\*   lines 63, 66, 69  the task is registered with the task registry,
\*   line 79   the plugins are loaded and have registered their listeners,
\*   line 91   asyncio.create_task(_auto_save_task()),
\*   line 106  register_message_handler,
\*   line 107  register_custom_message_handler("message_id_echo", ...).
Effect(k) ==
    /\ IF k = "plugins"
         THEN \E ls \in ListenerConfigs : listeners' = ls
         ELSE UNCHANGED listeners
    /\ autoSave' = IF k = "auto_save" THEN "scheduled" ELSE autoSave
    /\ handlers' =
         CASE k = "handler_message" -> handlers \cup {"message"}
           [] k = "handler_echo" -> handlers \cup {"message_id_echo"}
           [] OTHER -> handlers
    /\ registry' =
         IF k \in TaskNames THEN [registry EXCEPT ![k] = "registered"]
                            ELSE registry

\* The call of statement k returns: _init_components resumes (it takes the
\* loop) and moves to the next statement; after the last one it returns.
Return(k) ==
    /\ InCall(k)
    /\ AwaitReturned(k)
    /\ comp' = [comp EXCEPT ![k] = "ready"]
    /\ pc' = pc + 1
    /\ phase' = "pre"
    /\ bootState' = IF pc = NSteps THEN "done" ELSE "running"
    /\ Effect(k)
    /\ UNCHANGED << mainState, initState, schedState, calls, hostVars, emitVars >>

\* Faulty variant of Raise: the migration check is wrapped in a try whose
\* handler logs the exception, and _init_components goes on with the next
\* statement.
RaiseSwallowed(k) ==
    /\ InCall(k)
    /\ k \in Fallible
    /\ k = "on_start" => EmitRaises
    /\ comp' = [comp EXCEPT ![k] = "failed"]
    /\ IF k = "migrate"
         THEN pc' = pc + 1 /\ phase' = "pre" /\ bootState' = "running"
         ELSE bootState' = "raised" /\ UNCHANGED << pc, phase >>
    /\ UNCHANGED << mainState, initState, schedState, calls, serverVars,
                    hostVars, autoSave, listeners, emitVars >>

\* Faulty variant of Raise: the statement that raised is tried again.
RaiseRetry(k) ==
    /\ InCall(k)
    /\ k \in Fallible
    /\ k = "on_start" => EmitRaises
    /\ comp' = [comp EXCEPT ![k] = "uninit"]
    /\ phase' = "pre"
    /\ bootState' = "running"
    /\ UNCHANGED << mainState, initState, schedState, pc, calls, serverVars,
                    hostVars, autoSave, listeners, emitVars >>

\* The call of statement k raises. No statement of lines 60-115 is inside a
\* try, so the exception leaves _init_components at once.
Raise(k) ==
    /\ InCall(k)
    /\ k \in Fallible
    /\ k = "on_start" => EmitRaises
    /\ comp' = [comp EXCEPT ![k] = "failed"]
    /\ bootState' = "raised"
    /\ UNCHANGED << mainState, initState, schedState, pc, phase, calls,
                    serverVars, hostVars, autoSave, listeners, emitVars >>

\* The awaited callee of statement k never completes.
Hang(k) ==
    /\ InCall(k)
    /\ k \in AsyncSteps
    /\ bootState = "suspended"
    /\ bootState' = "hung"
    /\ UNCHANGED << mainState, initState, schedState, bootVars, serverVars,
                    hostVars, autoSave, listeners, emitVars >>

\* Faulty variant of EmitInvoke: the list is walked from its end.
EmitInvokeReversed ==
    /\ InCall("on_start")
    /\ ~EmitReturned
    /\ invoked' = Append(invoked, Len(emitSnap) + 1 - emitIdx)
    /\ listenerFailures' =
          listenerFailures + (IF emitSnap[Len(emitSnap) + 1 - emitIdx] THEN 1 ELSE 0)
    /\ emitIdx' = emitIdx + 1
    /\ \E susp \in BOOLEAN :
          bootState' = IF susp THEN "suspended" ELSE "running"
    /\ UNCHANGED << mainState, initState, schedState, bootVars, serverVars,
                    hostVars, autoSave, listeners, emitSnap, emitCount >>

\* handle_mai_events invokes the next listener of its list. A listener that
\* raises is caught and logged; the listener may suspend.
EmitInvoke ==
    /\ InCall("on_start")
    /\ ~EmitReturned
    /\ invoked' = Append(invoked, emitIdx)
    /\ listenerFailures' = listenerFailures + (IF emitSnap[emitIdx] THEN 1 ELSE 0)
    /\ emitIdx' = emitIdx + 1
    /\ \E susp \in BOOLEAN : bootState' = IF susp THEN "suspended" ELSE "running"
    /\ UNCHANGED << mainState, initState, schedState, bootVars, serverVars,
                    hostVars, autoSave, listeners, emitSnap, emitCount >>

\* register_listener(ON_START, listener) called while the emit is in progress,
\* by a listener or by another task: the listener is appended to the list.
\* The emit goes on with the list it began with, so the new listener is not
\* invoked and what it would do when invoked plays no part. (A registration
\* before the emit is one of the lists that the loading of the plugins may
\* leave.)
RegisterListener ==
    /\ InCall("on_start")
    /\ Len(listeners) < MaxListeners
    /\ listeners' = Append(listeners, FALSE)
    /\ UNCHANGED << mainState, initState, schedState, bootState, bootVars,
                    serverVars, hostVars, autoSave, emitVars >>

(***************************************************************************)
(* The task registry (async_task_manager)                                  *)
(***************************************************************************)

\* Faulty variant of TaskFail: the failure of a task ends the supervision, and
\* the other registered tasks are stopped with it.
TaskFailStopsRegistry(t) ==
    /\ LoopFree
    /\ registry[t] = "registered"
    /\ registry' =
          [u \in TaskNames |->
              IF registry[u] = "registered" THEN "failed" ELSE registry[u]]
    /\ UNCHANGED << mainState, initState, schedState, bootState, bootVars,
                    handlers, hostVars, autoSave, listeners, emitVars >>

\* The run of task t raises: the registry catches and logs the failure; a task
\* that always fails stays failed.
TaskFail(t) ==
    /\ LoopFree
    /\ registry[t] = "registered"
    /\ registry' = [registry EXCEPT ![t] = "failed"]
    /\ UNCHANGED << mainState, initState, schedState, bootState, bootVars,
                    handlers, hostVars, autoSave, listeners, emitVars >>

\* The run of task t completes on its schedule.
TaskComplete(t) ==
    /\ LoopFree
    /\ registry[t] = "registered"
    /\ registry' = [registry EXCEPT ![t] = "completed"]
    /\ UNCHANGED << mainState, initState, schedState, bootState, bootVars,
                    handlers, hostVars, autoSave, listeners, emitVars >>

(***************************************************************************)
(* The auto-save task of line 91                                           *)
(***************************************************************************)

AutoSaveBegin ==
    /\ LoopFree
    /\ autoSave = "scheduled"
    /\ autoSave' = "running"
    /\ UNCHANGED << mainState, initState, schedState, bootState, bootVars,
                    serverVars, hostVars, listeners, emitVars >>

\* Nobody awaits the task: its exception is never retrieved.
AutoSaveRaise ==
    /\ LoopFree
    /\ autoSave = "running"
    /\ autoSave' = "raised"
    /\ UNCHANGED << mainState, initState, schedState, bootState, bootVars,
                    serverVars, hostVars, listeners, emitVars >>

(***************************************************************************)
(* MainSystem.schedule_tasks                                               *)
(***************************************************************************)

\* Faulty variant of CohortReturned: the loop goes on as soon as one task has returned.
AnyReturned == \E s \in Services : svc[s] = "returned"

\* Faulty variant of CohortReturned: the gather collects exceptions as results
\* (return_exceptions=True), so it returns when every task has finished.
AllFinished == \A s \in Services : svc[s] \in {"returned", "raised"}

\* The gather of line 133 returns: every task of the cycle has returned.
CohortReturned == \A s \in Services : svc[s] = "returned"

\* Faulty variant of ScheduleTasks: the body runs once, without the while True.
ScheduleTasksOnce ==
    /\ LoopFree
    /\ schedState = "pending" /\ initState # "pending"
    /\ \A s \in Services : startCount[s] < MaxCycles
    /\ schedState' = "awaiting"
    /\ svc' = [s \in Services |-> "scheduled"]
    /\ startCount' = [s \in Services |-> startCount[s] + 1]
    /\ live' = [s \in Services |-> live[s] + 1]
    /\ UNCHANGED << mainState, initState, bootState, bootVars, serverVars,
                    autoSave, listeners, emitVars >>

\* Faulty variant of ScheduleTasks: every iteration loads the plugins again
\* before it starts the services.
ScheduleTasksReloadPlugins ==
    /\ LoopFree
    /\ \/ schedState = "pending" /\ initState # "pending"
       \/ schedState = "awaiting" /\ CohortReturned
    /\ \A s \in Services : startCount[s] < MaxCycles
    /\ schedState' = "awaiting"
    /\ svc' = [s \in Services |-> "scheduled"]
    /\ startCount' = [s \in Services |-> startCount[s] + 1]
    /\ live' = [s \in Services |-> live[s] + 1]
    /\ calls' = [calls EXCEPT !["plugins"] = @ + 1]
    /\ UNCHANGED << mainState, initState, bootState, pc, phase, comp,
                    serverVars, autoSave, listeners, emitVars >>

\* Lines 126-133, one iteration of while True: call the three coroutine
\* functions, hand the coroutines to gather (one task each) and await it. The
\* first iteration runs when the task of schedule_tasks first gets the loop,
\* after initialize, which main() queued before it.
ScheduleTasks ==
    /\ LoopFree
    /\ \/ schedState = "pending" /\ initState # "pending"
       \/ schedState = "awaiting" /\ CohortReturned
    /\ \A s \in Services : startCount[s] < MaxCycles
    /\ schedState' = "awaiting"
    /\ svc' = [s \in Services |-> "scheduled"]
    /\ startCount' = [s \in Services |-> startCount[s] + 1]
    /\ live' = [s \in Services |-> live[s] + 1]
    /\ UNCHANGED << mainState, initState, bootState, bootVars, serverVars,
                    autoSave, listeners, emitVars >>

\* The task of service s gets the loop and its coroutine begins to run. The
\* service tasks are queued after the task of _init_components.
ServiceBegin(s) ==
    /\ LoopFree
    /\ bootState \notin {"uncreated", "pending"}
    /\ svc[s] = "scheduled"
    /\ svc' = [svc EXCEPT ![s] = "running"]
    /\ UNCHANGED << mainState, initState, schedState, bootState, bootVars,
                    serverVars, startCount, live, autoSave, listeners, emitVars >>

\* The coroutine of service s returns.
ServiceReturn(s) ==
    /\ LoopFree
    /\ svc[s] = "running"
    /\ svc' = [svc EXCEPT ![s] = "returned"]
    /\ live' = [live EXCEPT ![s] = @ - 1]
    /\ UNCHANGED << mainState, initState, schedState, bootState, bootVars,
                    serverVars, startCount, autoSave, listeners, emitVars >>

\* The coroutine of service s raises.
ServiceRaise(s) ==
    /\ LoopFree
    /\ svc[s] = "running"
    /\ svc' = [svc EXCEPT ![s] = "raised"]
    /\ live' = [live EXCEPT ![s] = @ - 1]
    /\ UNCHANGED << mainState, initState, schedState, bootState, bootVars,
                    serverVars, startCount, autoSave, listeners, emitVars >>

\* Line 133: the gather re-raises the first exception of a service; nothing
\* catches it in schedule_tasks.
ScheduleRaise ==
    /\ LoopFree
    /\ schedState = "awaiting"
    /\ \E s \in Services : svc[s] = "raised"
    /\ schedState' = "raised"
    /\ UNCHANGED << mainState, initState, bootState, bootVars, serverVars,
                    hostVars, autoSave, listeners, emitVars >>

(***************************************************************************)
(* main() under asyncio.run                                                *)
(***************************************************************************)

\* What asyncio.run does to a task when main() has left: a task that has not
\* finished is cancelled.
Cancelled(st, unfinished) == IF st \in unfinished THEN "cancelled" ELSE st

\* Faulty variant of MainRaise: main() raises but the tasks that are left are not
\* cancelled.
MainRaiseNoCancel ==
    /\ LoopFree
    /\ initState = "raised" \/ schedState = "raised"
    /\ mainState' = "raised"
    /\ UNCHANGED << initState, schedState, bootState, bootVars, serverVars,
                    hostVars, autoSave, listeners, emitVars >>

\* Lines 147-150 and 154: the gather of main() re-raises the exception of
\* initialize or of schedule_tasks, main() raises, and asyncio.run cancels
\* every task that is left before it closes the loop.
MainRaise ==
    /\ LoopFree
    /\ initState = "raised" \/ schedState = "raised"
    /\ mainState' = "raised"
    /\ initState' = Cancelled(initState, {"pending", "awaiting"})
    /\ schedState' = Cancelled(schedState, {"pending", "awaiting"})
    /\ bootState' = Cancelled(bootState, {"pending", "suspended", "hung"})
    /\ svc' = [s \in Services |-> Cancelled(svc[s], {"scheduled", "running"})]
    /\ live' = [s \in Services |-> 0]
    /\ autoSave' = Cancelled(autoSave, {"scheduled", "running"})
    /\ UNCHANGED << bootVars, serverVars, startCount, listeners, emitVars >>

Next ==
    \/ InitializeEnter
    \/ InitializeReturn
    \/ InitializeRaise
    \/ BootStart
    \/ \E k \in StepNames : Call(k)
    \/ \E k \in StepNames : Return(k)
    \/ \E k \in StepNames : Raise(k)
    \/ \E k \in StepNames : Hang(k)
    \/ EmitInvoke
    \/ RegisterListener
    \/ AutoSaveBegin
    \/ AutoSaveRaise
    \/ ScheduleTasks
    \/ \E s \in Services : ServiceBegin(s)
    \/ \E s \in Services : ServiceReturn(s)
    \/ \E s \in Services : ServiceRaise(s)
    \/ ScheduleRaise
    \/ MainRaise

Spec == Init /\ [][Next]_vars

\* The bootstrap seen together with the supervision of the task registry: the
\* runs of the registered tasks interleave with _init_components, and the
\* services of the host loop, once started, keep running. The runs of the
\* tasks read and write the registry only, and Next leaves them out.
RegistryNext ==
    \/ InitializeEnter
    \/ InitializeReturn
    \/ InitializeRaise
    \/ BootStart
    \/ \E k \in StepNames : Call(k)
    \/ \E k \in StepNames : Return(k)
    \/ \E k \in StepNames : Raise(k)
    \/ EmitInvoke
    \/ ScheduleTasks
    \/ \E s \in Services : ServiceBegin(s)
    \/ MainRaise
    \/ \E t \in TaskNames : TaskFail(t)
    \/ \E t \in TaskNames : TaskComplete(t)

RegistrySpec == Init /\ [][RegistryNext]_vars

\* What the event loop guarantees: a task that is ready to run gets the loop,
\* and a task that holds the loop runs on to its next suspension. It does not
\* guarantee that a suspended callee completes or that a service ever returns.
LoopStep ==
    \/ InitializeEnter
    \/ InitializeReturn
    \/ InitializeRaise
    \/ BootStart
    \/ \E k \in StepNames : Call(k)
    \/ bootState = "running" /\ \E k \in StepNames : Return(k) \/ Raise(k)
    \/ bootState = "running" /\ EmitInvoke
    \/ AutoSaveBegin
    \/ ScheduleTasks
    \/ \E s \in Services : ServiceBegin(s)
    \/ ScheduleRaise
    \/ MainRaise

FairSpec == Spec /\ WF_vars(LoopStep)

\* The fair loop when, in addition, every callee of _init_components that
\* neither raises nor hangs returns, and every listener of the emit is got to.
TerminatingSpec ==
    /\ FairSpec
    /\ WF_vars(\E k \in StepNames : Return(k))
    /\ WF_vars(EmitInvoke)

(***************************************************************************)
(* Properties                                                              *)
(***************************************************************************)

\* The bootstrap statements that come before the ON_START emit.
BeforeOnStart ==
    {"task_online", "task_statistic", "task_telemetry", "lpmm", "plugins",
     "emoji", "mood", "chat", "handler_message", "handler_echo", "migrate"}

\* A service task of the current cycle is scheduled or running.
Live(s) == svc[s] \in {"scheduled", "running"}

\* C1: the inbound server's run() never runs while the message handlers are
\* not both registered or the mood subsystem or the chat-stream manager is not
\* ready.
C1_ServerRunsOnlyAfterHandlers ==
    svc["app_run"] = "running" =>
        /\ handlers = Handlers
        /\ comp["mood"] = "ready"
        /\ comp["chat"] = "ready"

\* C2: whenever ON_START has been emitted (the emit has begun, or a listener
\* has been invoked), every bootstrap statement before it has succeeded.
C2_OnStartOnlyWhenAllReady ==
    (comp["on_start"] # "uninit" \/ emitCount > 0 \/ invoked # << >>) =>
        /\ \A k \in BeforeOnStart : comp[k] = "ready"
        /\ handlers = Handlers

\* C2 witness: a listener has fired and bootstrap has completed.
C2_Witness ==
    /\ Len(invoked) > 0
    /\ bootState = "done"
    /\ \A k \in BeforeOnStart : comp[k] = "ready"

\* C3: once check_and_run_migrations() has failed, ON_START is not emitted and
\* no listener is invoked, the exception has left _init_components, initialize
\* never returns normally, and main() ends with an error.
C3_MigrationFailureIsFatal ==
    /\ [](comp["migrate"] = "failed" =>
            /\ emitCount = 0
            /\ invoked = << >>
            /\ comp["on_start"] = "uninit"
            /\ bootState = "raised"
            /\ initState \in {"awaiting", "raised", "cancelled"}
            /\ (initState = "cancelled" => mainState = "raised"))
    /\ (comp["migrate"] = "failed" ~> mainState = "raised")

\* C3 witness: the migration failed and main() has raised because of it.
C3_Witness ==
    /\ comp["migrate"] = "failed"
    /\ initState = "raised"
    /\ mainState = "raised"
    /\ schedState # "raised"

\* Every service task of the current cycle has returned.
AllReturned == \A s \in Services : svc[s] = "returned"

\* C4 as claimed: when one service has returned while the two others are still
\* running, the cohort is eventually started again (or the process has ended
\* with an error in the meantime).
C4_SingleExitRestartsCohort ==
    \A s \in Services : \A n \in 1..(MaxCycles - 1) :
        (/\ svc[s] = "returned"
         /\ \A t \in Services \ {s} : svc[t] = "running"
         /\ startCount[s] = n)
        ~> (\/ \A t \in Services : startCount[t] > n
            \/ mainState = "raised")

\* C4 as amended: the cohort is started again only from a state in which all
\* three service tasks of the cycle have returned; while a task of the cycle
\* is still scheduled or running, no service is started.
C4_RestartOnlyWhenAllReturned ==
    [][(\E s \in Services : startCount'[s] # startCount[s] /\ startCount[s] > 0)
          => AllReturned]_vars

\* C4 witness: in the second cycle one service has returned while the two
\* others are still running, and the loop is still waiting.
C4_Witness ==
    /\ \A s \in Services : startCount[s] = 2
    /\ svc["app_run"] = "returned"
    /\ svc["emoji_check"] = "running"
    /\ svc["server_run"] = "running"
    /\ schedState = "awaiting"

\* C5: when all three services of the cycle have returned the loop can go on,
\* and the step it takes starts all three again; every change of a start count
\* adds exactly one to the count of every service; the counts are always equal.
C5_CohortRestartCounts ==
    /\ [](\A s, t \in Services : startCount[s] = startCount[t])
    /\ []((/\ AllReturned
           /\ schedState = "awaiting"
           /\ mainState = "running"
           /\ bootState # "running"
           /\ \A s \in Services : startCount[s] < MaxCycles)
          => ENABLED ScheduleTasks)
    /\ [][(startCount' # startCount \/ (AllReturned /\ svc' # svc))
            => \A s \in Services :
                  /\ startCount'[s] = startCount[s] + 1
                  /\ svc'[s] = "scheduled"]_vars

\* C5 witness: the loop has gone round once, all three services are started
\* for the second time.
C5_Witness ==
    \A s \in Services : startCount[s] = 2 /\ svc[s] = "scheduled"

\* The statements of _init_components after the one at position i.
Later(i) == {Steps[j] : j \in (i + 1)..NSteps}

\* C6: when a bootstrap statement has failed, the exception has left
\* _init_components at that statement, no later statement has been executed,
\* initialize never returns normally; once main() has raised no service task
\* is scheduled or running; and main() does raise.
C6_BootstrapFailureIsFatal ==
    /\ [](\A k \in StepNames : comp[k] = "failed" =>
            /\ bootState = "raised"
            /\ Steps[pc] = k
            /\ \A j \in Later(pc) : comp[j] = "uninit"
            /\ emitCount = 0
            /\ initState # "returned")
    /\ [](mainState = "raised" => \A s \in Services : ~Live(s))
    /\ ((\E k \in StepNames : comp[k] = "failed")
          ~> (mainState = "raised" /\ \A s \in Services : ~Live(s)))

\* C6 witness: a phase-1 statement failed while a service was running; main()
\* has raised and the service task is cancelled.
C6_Witness ==
    /\ comp["mood"] = "failed"
    /\ handlers = {}
    /\ comp["migrate"] = "uninit"
    /\ mainState = "raised"
    /\ svc["app_run"] = "cancelled"

\* C7: a handler is registered (or its registration has begun) only when
\* mood_manager.start() and the chat-stream manager's initialization have both
\* completed successfully.
C7_HandlersAfterMoodAndChat ==
    (\/ handlers # {}
     \/ comp["handler_message"] # "uninit"
     \/ comp["handler_echo"] # "uninit")
    => (comp["mood"] = "ready" /\ comp["chat"] = "ready")

\* C7 witness: both handlers are registered.
C7_Witness ==
    /\ handlers = Handlers
    /\ comp["handler_echo"] = "ready"

\* C8: the migration check begins only when both handlers are registered; the
\* emit begins only when the migration check has completed; and nothing runs
\* between the two: when the migration check has completed and the emit has
\* not begun, the emit is the next statement.
C8_MigrationBetweenHandlersAndOnStart ==
    /\ comp["migrate"] # "uninit" =>
          (/\ handlers = Handlers
           /\ comp["handler_message"] = "ready"
           /\ comp["handler_echo"] = "ready")
    /\ comp["on_start"] # "uninit" => comp["migrate"] = "ready"
    /\ (comp["migrate"] = "ready" /\ comp["on_start"] = "uninit") =>
          (pc <= NSteps /\ Steps[pc] = "on_start" /\ phase = "pre")

\* C8 witness: the migration check is in progress, suspended.
C8_Witness ==
    /\ comp["migrate"] = "initializing"
    /\ bootState = "suspended"

\* Phase 2 has completed: both registrations have returned.
Phase2Complete ==
    comp["handler_message"] = "ready" /\ comp["handler_echo"] = "ready"

\* C9: in every state in which another task can run and phase 2 has not
\* completed, the inbound server has no handler registered.
C9_NoHandlerBeforePhase2Complete ==
    (bootState # "running" /\ ~Phase2Complete) => handlers = {}

C11_InvocationInRegistrationOrder ==
    /\ [](/\ \A i \in 1..Len(invoked) : invoked[i] = i
          /\ \A i, j \in 1..Len(invoked) : i < j => invoked[i] < invoked[j]
          /\ Len(invoked) = emitIdx - 1
          /\ Len(emitSnap) <= Len(listeners)
          /\ \A i \in 1..Len(emitSnap) : emitSnap[i] = listeners[i]
          /\ comp["on_start"] = "ready" =>
                invoked = [i \in 1..Len(emitSnap) |-> i])
    /\ [][listeners' # listeners /\ comp["on_start"] = "initializing"
            => /\ emitSnap' = emitSnap
               /\ emitIdx' = emitIdx
               /\ invoked' = invoked
               /\ \A i \in 1..Len(listeners) : listeners'[i] = listeners[i]]_vars

\* C11 witness: a listener was registered while the emit was in progress, and
\* the emit has returned having invoked the listeners of its own list only.
C11_Witness ==
    /\ Len(emitSnap) >= 1
    /\ Len(listeners) = Len(emitSnap) + 1
    /\ invoked = [i \in 1..Len(emitSnap) |-> i]
    /\ comp["on_start"] = "ready"

\* C12: the failure of a registered task changes the state of no other task
\* and of nothing in the bootstrap; with a failed task in the registry, every
\* other registered task can still run to completion, a later add_task still
\* registers its task, and _init_components has raised only if one of its own
\* statements failed.
C12_TaskFailureIsolated ==
    /\ []((\E t \in TaskNames : registry[t] = "failed") =>
            /\ \A u \in TaskNames :
                  (registry[u] = "registered" /\ LoopFree)
                      => ENABLED TaskComplete(u)
            /\ \A u \in TaskNames : InCall(u) => ENABLED Return(u)
            /\ bootState = "raised" => \E k \in StepNames : comp[k] = "failed"
            /\ \A u \in TaskNames : registry[u] # "none" => comp[u] = "ready")
    /\ [][\A t \in TaskNames :
            (registry[t] # "failed" /\ registry'[t] = "failed") =>
               /\ \A u \in TaskNames \ {t} : registry'[u] = registry[u]
               /\ UNCHANGED << bootState, pc, phase, comp >>]_vars

\* C12 witness: the first task failed, the two others were registered and
\* completed their runs, and bootstrap completed.
C12_Witness ==
    /\ registry["task_online"] = "failed"
    /\ registry["task_statistic"] = "completed"
    /\ registry["task_telemetry"] = "completed"
    /\ bootState = "done"
    /\ initState = "returned"

\* The initializations of phase 1, as the source lists them (lines 63-90).
Phase1 ==
    << "task_online", "task_statistic", "task_telemetry", "lpmm", "plugins",
       "emoji", "mood", "chat" >>

\* _init_components has ended with an exception, or the process has.
BootAborted ==
    \/ bootState \in {"raised", "cancelled"}
    \/ mainState = "raised"

\* C13 as claimed, in the form a fair event loop gives it: the initializations
\* of phase 1 are started side by side, so one that has begun and has not
\* finished does not hold back another: the other begins too (unless
\* bootstrap is aborted).
C13_Phase1Concurrent ==
    \A i, j \in 1..Len(Phase1) :
        (comp[Phase1[i]] = "initializing")
            ~> (comp[Phase1[j]] # "uninit" \/ BootAborted)

\* C13 as amended: the initializations of phase 1 run one after the other in
\* program order: one begins only when every earlier one has returned, at
\* most one statement is in progress at a time, and phase 2 begins only when
\* all of phase 1 has returned.
C13_Phase1Sequential ==
    /\ \A i, j \in 1..Len(Phase1) :
          (i < j /\ comp[Phase1[j]] # "uninit") => comp[Phase1[i]] = "ready"
    /\ Cardinality({k \in StepNames : comp[k] = "initializing"}) <= 1
    /\ comp["handler_message"] # "uninit" =>
          \A i \in 1..Len(Phase1) : comp[Phase1[i]] = "ready"

\* C13 witness: mood_manager.start() is suspended; everything before it has
\* returned and the chat-stream manager has not begun.
C13_Witness ==
    /\ comp["mood"] = "initializing"
    /\ bootState = "suspended"
    /\ comp["emoji"] = "ready"
    /\ comp["chat"] = "uninit"

\* The statement _init_components is at.
Current == IF pc <= NSteps THEN Steps[pc] ELSE "none"

\* C14: when an awaited initialization of phase 1 never completes, bootstrap
\* stays where it is: from then on no bootstrap state changes (until the
\* process ends), no handler is registered, the migration check has not begun
\* and ON_START is not emitted; the services of the host loop have been
\* started all the same, and each of them can still take its next step.
C14_HungBootstrapStallsAlone ==
    /\ []((bootState = "hung" /\ Current \in {Phase1[i] : i \in 1..Len(Phase1)}) =>
            /\ handlers = {}
            /\ comp["handler_message"] = "uninit"
            /\ comp["handler_echo"] = "uninit"
            /\ comp["migrate"] = "uninit"
            /\ comp["on_start"] = "uninit"
            /\ emitCount = 0
            /\ initState \in {"awaiting", "cancelled"}
            /\ \A s \in Services : startCount[s] >= 1
            /\ mainState = "running" =>
                  \A s \in Services :
                     /\ svc[s] = "scheduled" => ENABLED ServiceBegin(s)
                     /\ svc[s] = "running" => ENABLED ServiceReturn(s))
    /\ [][bootState = "hung" =>
            /\ bootState' \in {"hung", "cancelled"}
            /\ UNCHANGED << pc, phase, comp, handlers, emitCount, invoked >>]_vars

\* C14 witness: mood_manager.start() hangs while the inbound server, started
\* for the second time, is running.
C14_Witness ==
    /\ bootState = "hung"
    /\ Current = "mood"
    /\ startCount["app_run"] = 2
    /\ svc["app_run"] = "running"

\* A bootstrap statement has failed or hangs, or a service has raised.
SomethingFailed ==
    \/ \E k \in StepNames : comp[k] = "failed"
    \/ bootState = "hung"
    \/ \E s \in Services : svc[s] = "raised"

\* C15: ON_START is never emitted twice, and in every fair behaviour in which
\* no bootstrap statement fails or hangs and no service raises, initialize()
\* eventually has returned with ON_START emitted exactly once. (The second
\* conjunct is []~SomethingFailed => <>(...), written as one eventuality.)
C15_BootstrapCompletes ==
    /\ [](emitCount <= 1)
    /\ <>(\/ SomethingFailed
          \/ /\ initState = "returned"
             /\ bootState = "done"
             /\ emitCount = 1
             /\ comp["on_start"] = "ready")

\* C15 witness: initialize() has returned after one emit while the host loop
\* was in its second cycle and nothing had failed.
C15_Witness ==
    /\ initState = "returned"
    /\ emitCount = 1
    /\ ~SomethingFailed
    /\ \A s \in Services : startCount[s] = 2

\* The statements from the launch of the auto-save task to the migration check.
FromAutoSave == {"auto_save", "handler_message", "handler_echo", "migrate"}

\* C16: the auto-save task exists only when the chat-stream manager's
\* initialization has completed; it is created once; _init_components does not
\* wait for it: whatever the task's state (not yet run, running for good,
\* failed), the create_task call and the statements after it can return, and
\* the next statement can begin; and a failure of the task never makes
\* _init_components raise.
C16_AutoSaveFireAndForget ==
    /\ [](/\ autoSave # "none" =>
                (comp["chat"] = "ready" /\ comp["auto_save"] = "ready")
          /\ comp["auto_save"] = "ready" => autoSave # "none"
          /\ \A k \in FromAutoSave : InCall(k) => ENABLED Return(k)
          /\ \A k \in FromAutoSave \cup {"on_start"} :
                AtCall(k) => ENABLED Call(k)
          /\ bootState = "raised" => \E k \in StepNames : comp[k] = "failed")
    /\ [][autoSave # "none" => autoSave' # "scheduled" \/ autoSave' = autoSave]_vars
    /\ [][autoSave' # autoSave => UNCHANGED << bootState, pc, phase, comp >>
                                  \/ autoSave = "none"
                                  \/ autoSave' = "cancelled"]_vars

\* C16 witness: the auto-save task has failed, and bootstrap has registered the
\* handlers, run the migration check, emitted ON_START and completed.
C16_Witness ==
    /\ autoSave = "raised"
    /\ handlers = Handlers
    /\ comp["migrate"] = "ready"
    /\ emitCount = 1
    /\ bootState = "done"

\* The moves of the state of a subsystem.
CompMove(a, b) ==
    \/ a = "uninit" /\ b = "initializing"
    \/ a = "initializing" /\ b \in {"ready", "failed"}

\* C17: the state of every subsystem only moves uninit -> initializing ->
\* ready or uninit -> initializing -> failed, so that ready and failed are
\* never left and initializing is entered once; a step of the host loop
\* (one that changes a service task or a start count) changes no such state.
C17_ComponentStateMachine ==
    /\ [](\A k \in StepNames :
             comp[k] \in {"uninit", "initializing", "ready", "failed"})
    /\ [][\A k \in StepNames : comp'[k] # comp[k] => CompMove(comp[k], comp'[k])]_vars
    /\ [][(svc' # svc \/ startCount' # startCount) => comp' = comp]_vars

\* C17 witness: some subsystems are ready and one has failed, while the host
\* loop has gone round.
C17_Witness ==
    /\ comp["chat"] = "ready"
    /\ comp["migrate"] = "failed"
    /\ \A s \in Services : startCount[s] = 2

\* C18: no bootstrap statement is called twice: plugin loading, each
\* registration of a handler, the migration check and the emit are each
\* called at most once, and ON_START is emitted at most once; _init_components
\* never goes back; and an iteration of the host loop (a step that changes a
\* start count) changes nothing of the bootstrap.
C18_BootstrapStepsAtMostOnce ==
    /\ [](/\ \A k \in StepNames : calls[k] <= 1
          /\ \A k \in StepNames : calls[k] = 0 <=> comp[k] = "uninit"
          /\ emitCount = calls["on_start"])
    /\ [][pc' >= pc]_vars
    /\ [][startCount' # startCount =>
            UNCHANGED << initState, bootState, pc, phase, comp, calls, handlers,
                         registry, autoSave, listeners, emitSnap, emitIdx,
                         invoked, listenerFailures, emitCount >>]_vars

\* C18 witness: the host loop is in its second cycle and bootstrap has
\* completed, each of its statements called once.
C18_Witness ==
    /\ \A s \in Services : startCount[s] = 2
    /\ bootState = "done"
    /\ \A k \in StepNames : calls[k] = 1
    /\ emitCount = 1

\* C19: at every moment each service of the host loop has at most one task
\* that was created and has not finished, and the services are started again
\* only when no task of the previous cycle is left: each of them has returned.
C19_OneLiveInstancePerService ==
    /\ [](\A s \in Services : live[s] <= 1)
    /\ [][(\E s \in Services : startCount'[s] > startCount[s])
            => \A t \in Services :
                  /\ live[t] = 0
                  /\ startCount[t] > 0 => svc[t] = "returned"]_vars

\* C19 witness: in the second cycle the inbound server and the control server
\* run, one task each, while the emoji check of that cycle has returned.
C19_Witness ==
    /\ \A s \in Services : startCount[s] = 2
    /\ svc["server_run"] = "running" /\ live["server_run"] = 1
    /\ svc["app_run"] = "running" /\ live["app_run"] = 1
    /\ svc["emoji_check"] = "returned" /\ live["emoji_check"] = 0

\* A service of the current cycle has raised.
ServiceRaised == \E s \in Services : svc[s] = "raised"

\* C20: when a service of the host loop raises, no service is started again:
\* the start counts stay as they are and the raised task is never replaced,
\* schedule_tasks never awaits a gather again once the exception has left it,
\* and the exception leaves schedule_tasks and then main().
C20_ServiceExceptionStopsLoop ==
    /\ [][ServiceRaised => /\ startCount' = startCount
                           /\ \A s \in Services :
                                 svc[s] = "raised" => svc'[s] = "raised"]_vars
    /\ [][schedState = "raised" => schedState' = "raised"]_vars
    /\ [](schedState = "raised" => ServiceRaised)
    /\ ServiceRaised ~> (mainState = "raised")
    /\ [](ServiceRaised /\ mainState = "raised" /\ initState # "raised"
            => schedState = "raised")

\* C20 witness: in the first cycle the control server raised while the inbound
\* server ran; the exception left schedule_tasks and main(), bootstrap having
\* completed, and the inbound server was cancelled with no second cycle.
C20_Witness ==
    /\ svc["app_run"] = "raised"
    /\ svc["server_run"] = "cancelled"
    /\ schedState = "raised"
    /\ mainState = "raised"
    /\ bootState = "done"
    /\ \A s \in Services : startCount[s] = 1

====
